---- MODULE Spec2Model ----
(***************************************************************************)
(* RealtimeSanitizer runtime core (compiler-rt/lib/rtsan/rtsan_context.cpp) *)
(* as a state machine: the per-thread Context with its two depth counters,  *)
(* the lazily initialised thread-local registry (pthread_once +             *)
(* pthread_key_create + pthread_get/setspecific + exit finalizer), the      *)
(* ExpectNotRealtime detector, PrintDiagnostics under the report lock and   *)
(* the terminate-only action policy.                                        *)
(***************************************************************************)
EXTENDS Integers, Sequences, FiniteSets

\* ------------------------------------------------------------------ bounds
NumThreads == 2     \* OS threads of the process
NumAddrs == 2       \* addresses the internal allocator can hand out
MaxDepth == 2       \* cap on how far a depth counter is pushed above zero
MaxNeg == 1         \* cap on how far a depth counter is popped below zero
MaxNest == 2        \* cap on ExpectNotRealtime frames on one thread's stack
MaxOps == 4         \* cap on the Context operations CtxSpec keeps in hist

Threads == 1..NumThreads
Addrs == 1..NumAddrs
NoCtx == 0          \* nullptr
NoThread == 0
Names == {"malloc", "free"}
NoName == "-"

VARIABLES
    initialized,      \* __rtsan_is_initialized()
    terminated,       \* "no", "check" (a CHECK failed), "alloc" (InternalAlloc
                      \* died) or "die" (the action policy's Die())
    key_once,         \* pthread_once_t key_once: "init", "running", "done"
    key_created,      \* context_key holds a key made by pthread_key_create
    key_create_calls, \* how many times the setup body ran
    tls,              \* per thread: the value stored under context_key
    allocated,        \* addresses of live InternalAlloc blocks holding a Context
    realtime_depth,   \* Context::realtime_depth_ of the Context at each address
    bypass_depth,     \* Context::bypass_depth_ of the Context at each address
    owner,            \* the thread whose lookup allocated the Context at an address
    ref,              \* per thread: the reference its last lookup returned
    pushed,           \* per thread: it has called RealtimePush at least once
    stack,            \* per thread: the frames of rtsan calls in progress
    alive,            \* per thread: it has not exited
    lock,             \* holder of the process-wide error report lock
    output,           \* what has been written to the error output so far
    ev,               \* the last ExpectNotRealtime call and how it ended
    hist              \* the Context operations made through the reference a
                      \* thread holds, in order (kept by CtxSpec alone)

vars == <<initialized, terminated, key_once, key_created, key_create_calls, tls,
          allocated, realtime_depth, bypass_depth, owner, ref, pushed, stack,
          alive, lock, output, ev, hist>>

NoEvent == [thread |-> NoThread, call |-> "-", outcome |-> "-"]

\* a frame of a call in progress: where it stands, the Context and the name
\* it was called with
Frame(l, c, n) == [loc |-> l, ctx |-> c, name |-> n]

Top(t) == stack[t][Len(stack[t])]

Push(t, f) == [stack EXCEPT ![t] = Append(@, f)]

Pop(t) == [stack EXCEPT ![t] = SubSeq(@, 1, Len(@) - 1)]

Goto(t, l) == [stack EXCEPT ![t][Len(stack[t])].loc = l]

Running == terminated = "no"

\* the thread is in user code (no rtsan call in progress)
Idle(t) == Running /\ alive[t] /\ stack[t] = <<>>

At(t, l) == Running /\ alive[t] /\ stack[t] # <<>> /\ Top(t).loc = l

\* Context::InRealtimeContext
InRealtimeContext(c) == realtime_depth[c] > 0

\* Context::IsBypassed
IsBypassed(c) == bypass_depth[c] > 0

Init ==
    /\ initialized = FALSE
    /\ terminated = "no"
    /\ key_once = "init"
    /\ key_created = FALSE
    /\ key_create_calls = 0
    /\ tls = [t \in Threads |-> NoCtx]
    /\ allocated = {}
    /\ realtime_depth = [a \in Addrs |-> 0]
    /\ bypass_depth = [a \in Addrs |-> 0]
    /\ owner = [a \in Addrs |-> NoThread]
    /\ ref = [t \in Threads |-> NoCtx]
    /\ pushed = [t \in Threads |-> FALSE]
    /\ stack = [t \in Threads |-> <<>>]
    /\ alive = [t \in Threads |-> TRUE]
    /\ lock = NoThread
    /\ output = <<>>
    /\ ev = NoEvent
    /\ hist = <<>>

regVars == <<key_once, key_created, key_create_calls, tls>>

heapVars == <<allocated, realtime_depth, bypass_depth, owner>>

repVars == <<lock, output>>

\* the runtime's global initialisation completes
RtsanInit ==
    /\ Running
    /\ ~initialized
    /\ initialized' = TRUE
    /\ ev' = NoEvent
    /\ UNCHANGED <<terminated, regVars, heapVars, ref, pushed, stack, alive,
                   repVars>>

\* ------------------------------------------------------- Context registry

\* a thread in user code calls GetContextForThisThread
GetContextForThisThread(t) ==
    /\ Idle(t)
    /\ stack' = Push(t, Frame("once", NoCtx, NoName))
    /\ ev' = NoEvent
    /\ UNCHANGED <<initialized, terminated, regVars, heapVars, ref, pushed,
                   alive, repVars>>

\* pthread_once(&key_once, ...) as a per-call test of the key instead of a
\* guarded initializer: whoever finds no key yet runs the setup body
PthreadOnce_percall(t) ==
    /\ At(t, "once")
    /\ stack' = Goto(t, IF key_created THEN "lookup" ELSE "key_create")
    /\ ev' = NoEvent
    /\ UNCHANGED <<initialized, terminated, regVars, heapVars, ref, pushed,
                   alive, repVars>>

\* pthread_once(&key_once, ...): the first caller is sent into the setup
\* body, a caller that finds the setup complete goes on, a caller that finds
\* it running waits
PthreadOnce(t) ==
    /\ At(t, "once")
    /\ key_once # "running"
    /\ IF key_once = "init"
       THEN /\ key_once' = "running"
            /\ stack' = Goto(t, "key_create")
       ELSE /\ key_once' = key_once
            /\ stack' = Goto(t, "lookup")
    /\ ev' = NoEvent
    /\ UNCHANGED <<initialized, terminated, key_created, key_create_calls, tls,
                   heapVars, ref, pushed, alive, repVars>>

\* the setup body: CHECK_EQ(pthread_key_create(&context_key, ...), 0)
MakeThreadLocalContextKey(t) ==
    /\ At(t, "key_create")
    /\ key_create_calls' = key_create_calls + 1
    /\ \E created \in BOOLEAN :
         IF created
         THEN /\ key_created' = TRUE
              /\ key_once' = "done"
              /\ stack' = Goto(t, "lookup")
              /\ terminated' = terminated
         ELSE /\ terminated' = "check"
              /\ UNCHANGED <<key_created, key_once, stack>>
    /\ ev' = NoEvent
    /\ UNCHANGED <<initialized, tls, heapVars, ref, pushed, alive, repVars>>

\* the slot read as if it were one process-wide slot instead of a value per
\* thread: any thread's value is every thread's value
CurrentThreadContext_shared(t) ==
    IF \E u \in Threads : tls[u] # NoCtx
    THEN tls[CHOOSE u \in Threads : tls[u] # NoCtx]
    ELSE NoCtx

\* pthread_getspecific(context_key) on the calling thread
CurrentThreadContext(t) == tls[t]

\* lines 40-49: pthread_getspecific, and on nullptr InternalAlloc + placement
\* new + pthread_setspecific (whose result is not looked at); returns the
\* reference
LookupOrCreate(t) ==
    /\ At(t, "lookup")
    /\ ev' = NoEvent
    /\ IF CurrentThreadContext(t) # NoCtx
       THEN /\ ref' = [ref EXCEPT ![t] = CurrentThreadContext(t)]
            /\ stack' = Pop(t)
            /\ UNCHANGED <<terminated, tls, heapVars>>
       ELSE \/ \* InternalAlloc finds no memory: it ends the process
               /\ terminated' = "alloc"
               /\ UNCHANGED <<tls, heapVars, ref, stack>>
            \/ \E a \in Addrs \ allocated, associated \in BOOLEAN :
                 /\ allocated' = allocated \cup {a}
                 /\ realtime_depth' = [realtime_depth EXCEPT ![a] = 0]
                 /\ bypass_depth' = [bypass_depth EXCEPT ![a] = 0]
                 /\ owner' = [owner EXCEPT ![a] = t]
                 /\ tls' = IF associated THEN [tls EXCEPT ![t] = a] ELSE tls
                 /\ ref' = [ref EXCEPT ![t] = a]
                 /\ stack' = Pop(t)
                 /\ terminated' = terminated
    /\ UNCHANGED <<initialized, key_once, key_created, key_create_calls, pushed,
                   alive, repVars>>

\* InternalFreeWrapper, the finalizer registered with the key
InternalFreeWrapper(ptr) ==
    /\ allocated' = allocated \ {ptr}
    /\ realtime_depth' = [realtime_depth EXCEPT ![ptr] = 0]
    /\ bypass_depth' = [bypass_depth EXCEPT ![ptr] = 0]
    /\ owner' = [owner EXCEPT ![ptr] = NoThread]

\* the thread exits: the thread library runs the key's finalizer on the
\* thread's value if there is one
ThreadExit(t) ==
    /\ Idle(t)
    /\ alive' = [alive EXCEPT ![t] = FALSE]
    /\ ref' = [ref EXCEPT ![t] = NoCtx]
    /\ IF key_created /\ tls[t] # NoCtx
       THEN /\ InternalFreeWrapper(tls[t])
            /\ tls' = [tls EXCEPT ![t] = NoCtx]
       ELSE UNCHANGED <<heapVars, tls>>
    /\ ev' = NoEvent
    /\ UNCHANGED <<initialized, terminated, key_once, key_created,
                   key_create_calls, pushed, stack, repVars>>

\* ------------------------------------------------------------ the Context

\* the depth kept as a flag: entering sets it, however deep the nesting
RealtimePush_flag(t) ==
    /\ Idle(t)
    /\ ref[t] # NoCtx
    /\ realtime_depth' = [realtime_depth EXCEPT ![ref[t]] = 1]
    /\ pushed' = [pushed EXCEPT ![t] = TRUE]
    /\ ev' = NoEvent
    /\ UNCHANGED <<initialized, terminated, regVars, allocated, bypass_depth,
                   owner, ref, stack, alive, repVars>>

\* void Context::RealtimePush() { realtime_depth_++; }
RealtimePush(t) ==
    /\ Idle(t)
    /\ ref[t] # NoCtx
    /\ realtime_depth[ref[t]] < MaxDepth
    /\ realtime_depth' = [realtime_depth EXCEPT ![ref[t]] = @ + 1]
    /\ pushed' = [pushed EXCEPT ![t] = TRUE]
    /\ ev' = NoEvent
    /\ UNCHANGED <<initialized, terminated, regVars, allocated, bypass_depth,
                   owner, ref, stack, alive, repVars>>

\* the depth clamped at zero: a pop at depth 0 leaves it 0
RealtimePop_clamped(t) ==
    /\ Idle(t)
    /\ ref[t] # NoCtx
    /\ realtime_depth' = [realtime_depth EXCEPT ![ref[t]] =
                              IF @ > 0 THEN @ - 1 ELSE 0]
    /\ ev' = NoEvent
    /\ UNCHANGED <<initialized, terminated, regVars, allocated, bypass_depth,
                   owner, ref, pushed, stack, alive, repVars>>

\* void Context::RealtimePop() { realtime_depth_--; }
RealtimePop(t) ==
    /\ Idle(t)
    /\ ref[t] # NoCtx
    /\ realtime_depth[ref[t]] > -MaxNeg
    /\ realtime_depth' = [realtime_depth EXCEPT ![ref[t]] = @ - 1]
    /\ ev' = NoEvent
    /\ UNCHANGED <<initialized, terminated, regVars, allocated, bypass_depth,
                   owner, ref, pushed, stack, alive, repVars>>

\* the depth kept as a flag: entering sets it, however deep the nesting
BypassPush_flag(t) ==
    /\ Idle(t)
    /\ ref[t] # NoCtx
    /\ bypass_depth' = [bypass_depth EXCEPT ![ref[t]] = 1]
    /\ ev' = NoEvent
    /\ UNCHANGED <<initialized, terminated, regVars, allocated, realtime_depth,
                   owner, ref, pushed, stack, alive, repVars>>

\* void Context::BypassPush() { bypass_depth_++; }
BypassPush(t) ==
    /\ Idle(t)
    /\ ref[t] # NoCtx
    /\ bypass_depth[ref[t]] < MaxDepth
    /\ bypass_depth' = [bypass_depth EXCEPT ![ref[t]] = @ + 1]
    /\ ev' = NoEvent
    /\ UNCHANGED <<initialized, terminated, regVars, allocated, realtime_depth,
                   owner, ref, pushed, stack, alive, repVars>>

\* leaving bypass also leaves the real-time region: both depths decremented
BypassPop_both(t) ==
    /\ Idle(t)
    /\ ref[t] # NoCtx
    /\ bypass_depth[ref[t]] > -MaxNeg
    /\ bypass_depth' = [bypass_depth EXCEPT ![ref[t]] = @ - 1]
    /\ realtime_depth' = [realtime_depth EXCEPT ![ref[t]] = @ - 1]
    /\ ev' = NoEvent
    /\ UNCHANGED <<initialized, terminated, regVars, allocated, owner, ref,
                   pushed, stack, alive, repVars>>

\* void Context::BypassPop() { bypass_depth_--; }
BypassPop(t) ==
    /\ Idle(t)
    /\ ref[t] # NoCtx
    /\ bypass_depth[ref[t]] > -MaxNeg
    /\ bypass_depth' = [bypass_depth EXCEPT ![ref[t]] = @ - 1]
    /\ ev' = NoEvent
    /\ UNCHANGED <<initialized, terminated, regVars, allocated, realtime_depth,
                   owner, ref, pushed, stack, alive, repVars>>

\* ----------------------------------------------------------- the Detector

\* the CHECK placed after the realtime/bypass test, so that it guards the
\* violation path alone
InitCheckFails_late(c) ==
    ~initialized /\ realtime_depth[c] > 0 /\ ~(bypass_depth[c] > 0)

\* line 80: CHECK(__rtsan_is_initialized()) fails
InitCheckFails(c) == ~initialized

\* the test without its bypass half
ViolationDetected_nobypass(c) == InRealtimeContext(c)

\* line 81: context.InRealtimeContext() && !context.IsBypassed()
ViolationDetected(c) == InRealtimeContext(c) /\ ~IsBypassed(c)

\* the violation path entered without entering bypass
EnterBypass_missing(c) == bypass_depth

\* line 82: context.BypassPush() on the violation path
EnterBypass(c) == [bypass_depth EXCEPT ![c] = @ + 1]

\* lines 80-85 of ExpectNotRealtime(context, intercepted_function_name), up to
\* the call of PrintDiagnostics; kind tells a call from user code ("top") from
\* one made inside the reporting path ("nested")
EnterExpectNotRealtime(t, c, n, kind) ==
    IF InitCheckFails(c)
    THEN /\ terminated' = "check"
         /\ ev' = [thread |-> t, call |-> kind, outcome |-> "checkfail"]
         /\ UNCHANGED <<bypass_depth, stack>>
    ELSE IF ViolationDetected(c)
    THEN /\ bypass_depth' = EnterBypass(c)
         /\ stack' = Push(t, Frame("lock", c, n))
         /\ ev' = [thread |-> t, call |-> kind, outcome |-> "violation"]
         /\ terminated' = terminated
    ELSE /\ ev' = [thread |-> t, call |-> kind, outcome |-> "noop"]
         /\ UNCHANGED <<terminated, bypass_depth, stack>>

\* the report lock taken on entry, before the test of line 81
ExpectNotRealtime_locked(t, n) ==
    /\ Idle(t)
    /\ ref[t] # NoCtx
    /\ lock = NoThread
    /\ EnterExpectNotRealtime(t, ref[t], n, "top")
    /\ UNCHANGED <<initialized, regVars, allocated, realtime_depth, owner, ref,
                   pushed, alive, repVars>>

\* an interceptor running in user code calls ExpectNotRealtime with the
\* reference its thread holds
ExpectNotRealtime(t, n) ==
    /\ Idle(t)
    /\ ref[t] # NoCtx
    /\ EnterExpectNotRealtime(t, ref[t], n, "top")
    /\ UNCHANGED <<initialized, regVars, allocated, realtime_depth, owner, ref,
                   pushed, alive, repVars>>

\* where a thread stands inside the body of PrintDiagnostics
ReporterBody == {"banner", "name", "stack"}

\* the reporting path (formatting, stack capture) runs into an intercepted
\* function, whose interceptor calls ExpectNotRealtime on the same Context
NestedExpectNotRealtime(t, n) ==
    /\ stack[t] # <<>>
    /\ \E l \in ReporterBody : At(t, l)
    /\ Len(stack[t]) < MaxNest
    /\ EnterExpectNotRealtime(t, Top(t).ctx, n, "nested")
    /\ UNCHANGED <<initialized, regVars, allocated, realtime_depth, owner, ref,
                   pushed, alive, repVars>>

\* ----------------------------------------------------------- the Reporter

\* no lock taken at all
ReportLockAvailable_nolock(t) == TRUE

\* line 106: ScopedErrorReportLock l can be constructed: nobody holds the lock
ReportLockAvailable(t) == lock = NoThread

\* line 106: ScopedErrorReportLock l
AcquireReportLock(t) ==
    /\ At(t, "lock")
    /\ ReportLockAvailable(t)
    /\ lock' = t
    /\ stack' = Goto(t, "banner")
    /\ ev' = NoEvent
    /\ UNCHANGED <<initialized, terminated, regVars, heapVars, ref, pushed,
                   alive, output>>

Line(t, part, n) == [thread |-> t, part |-> part, name |-> n]

\* lines 108-110: the error banner
PrintBanner(t) ==
    /\ At(t, "banner")
    /\ output' = Append(output, Line(t, "banner", NoName))
    /\ stack' = Goto(t, "name")
    /\ ev' = NoEvent
    /\ UNCHANGED <<initialized, terminated, regVars, heapVars, ref, pushed,
                   alive, lock>>

\* lines 111-114: the line naming the intercepted function
PrintFunctionName(t) ==
    /\ At(t, "name")
    /\ output' = Append(output, Line(t, "name", Top(t).name))
    /\ stack' = Goto(t, "stack")
    /\ ev' = NoEvent
    /\ UNCHANGED <<initialized, terminated, regVars, heapVars, ref, pushed,
                   alive, lock>>

\* lines 116-118: the stack trace, then l's destructor releases the lock and
\* PrintDiagnostics returns
PrintStackTrace(t) ==
    /\ At(t, "stack")
    /\ output' = Append(output, Line(t, "stack", NoName))
    /\ lock' = NoThread
    /\ stack' = Goto(t, "action")
    /\ ev' = NoEvent
    /\ UNCHANGED <<initialized, terminated, regVars, heapVars, ref, pushed,
                   alive>>

\* ------------------------------------------------------ the Action Policy

\* a policy that continues: control returns, BypassPop runs (line 87) and
\* ExpectNotRealtime returns to the interceptor
InvokeViolationDetectedAction_continue(t) ==
    /\ At(t, "action")
    /\ bypass_depth' = [bypass_depth EXCEPT ![Top(t).ctx] = @ - 1]
    /\ stack' = Pop(t)
    /\ ev' = NoEvent
    /\ UNCHANGED <<initialized, terminated, regVars, allocated, realtime_depth,
                   owner, ref, pushed, alive, repVars>>

\* line 86 and line 66: InvokeViolationDetectedAction() { Die(); } ends the
\* process, so nothing after the call runs
InvokeViolationDetectedAction(t) ==
    /\ At(t, "action")
    /\ terminated' = "die"
    /\ ev' = NoEvent
    /\ UNCHANGED <<initialized, regVars, heapVars, ref, pushed, stack, alive,
                   repVars>>

Next ==
    \/ RtsanInit /\ UNCHANGED hist
    \/ \E t \in Threads : GetContextForThisThread(t) /\ UNCHANGED hist
    \/ \E t \in Threads : PthreadOnce(t) /\ UNCHANGED hist
    \/ \E t \in Threads : MakeThreadLocalContextKey(t) /\ UNCHANGED hist
    \/ \E t \in Threads : LookupOrCreate(t) /\ UNCHANGED hist
    \/ \E t \in Threads : ThreadExit(t) /\ UNCHANGED hist
    \/ \E t \in Threads : RealtimePush(t) /\ UNCHANGED hist
    \/ \E t \in Threads : RealtimePop(t) /\ UNCHANGED hist
    \/ \E t \in Threads : BypassPush(t) /\ UNCHANGED hist
    \/ \E t \in Threads : BypassPop(t) /\ UNCHANGED hist
    \/ \E t \in Threads, n \in Names : ExpectNotRealtime(t, n) /\ UNCHANGED hist
    \/ \E t \in Threads, n \in Names : NestedExpectNotRealtime(t, n) /\ UNCHANGED hist
    \/ \E t \in Threads : AcquireReportLock(t) /\ UNCHANGED hist
    \/ \E t \in Threads : PrintBanner(t) /\ UNCHANGED hist
    \/ \E t \in Threads : PrintFunctionName(t) /\ UNCHANGED hist
    \/ \E t \in Threads : PrintStackTrace(t) /\ UNCHANGED hist
    \/ \E t \in Threads : InvokeViolationDetectedAction(t) /\ UNCHANGED hist

Spec == Init /\ [][Next]_vars

\* ------------------------------------------- one thread, with its history

\* the thread CtxSpec follows
Subject == CHOOSE t \in Threads : \A u \in Threads : t <= u

\* the Context operation op is made and kept in hist
Recorded(op) ==
    /\ Len(hist) < MaxOps
    /\ hist' = Append(hist, op)

CtxRealtimePush == RealtimePush(Subject) /\ Recorded("RealtimePush")

CtxRealtimePop == RealtimePop(Subject) /\ Recorded("RealtimePop")

CtxBypassPush == BypassPush(Subject) /\ Recorded("BypassPush")

CtxBypassPop == BypassPop(Subject) /\ Recorded("BypassPop")

\* the lookup returns: hist starts afresh when the reference is to a new
\* Context
CtxLookupOrCreate ==
    /\ LookupOrCreate(Subject)
    /\ hist' = IF ref'[Subject] = ref[Subject] THEN hist ELSE <<>>

\* the program run by one thread, every operation it makes on the Context it
\* holds kept in hist
CtxNext ==
    \/ RtsanInit /\ UNCHANGED hist
    \/ GetContextForThisThread(Subject) /\ UNCHANGED hist
    \/ PthreadOnce(Subject) /\ UNCHANGED hist
    \/ MakeThreadLocalContextKey(Subject) /\ UNCHANGED hist
    \/ CtxLookupOrCreate
    \/ CtxRealtimePush
    \/ CtxRealtimePop
    \/ CtxBypassPush
    \/ CtxBypassPop
    \/ \E n \in Names : ExpectNotRealtime(Subject, n) /\ UNCHANGED hist
    \/ \E n \in Names : NestedExpectNotRealtime(Subject, n) /\ UNCHANGED hist
    \/ AcquireReportLock(Subject) /\ UNCHANGED hist
    \/ PrintBanner(Subject) /\ UNCHANGED hist
    \/ PrintFunctionName(Subject) /\ UNCHANGED hist
    \/ PrintStackTrace(Subject) /\ UNCHANGED hist
    \/ InvokeViolationDetectedAction(Subject) /\ UNCHANGED hist

CtxSpec == Init /\ [][CtxNext]_vars

\* ------------------------------------------------------------ properties

\* the Context an ExpectNotRealtime call made by t in this state is given
CallerCtx(t) == IF stack[t] = <<>> THEN ref[t] ELSE Top(t).ctx

\* this step is an ExpectNotRealtime call made by t
Called(t) == ev' # ev /\ ev'.thread = t

\* t is on the violation path of an ExpectNotRealtime call from user code
Detected(t) ==
    /\ stack[t] # <<>>
    /\ stack[t][1].loc \in {"lock", "action"} \cup ReporterBody

\* t's PrintDiagnostics call is in progress (waiting for the lock or printing)
InReporter(t) ==
    /\ stack[t] # <<>>
    /\ stack[t][1].loc \in {"lock"} \cup ReporterBody

\* t is between taking and releasing the report lock
InBody(t) == \E i \in 1..Len(stack[t]) : stack[t][i].loc \in ReporterBody

\* the output holds the three parts of t's report in a row
ReportComplete(t) ==
    \E i \in 1..Len(output) :
        /\ i + 2 <= Len(output)
        /\ output[i] = Line(t, "banner", NoName)
        /\ output[i + 1] = Line(t, "name", stack[t][1].name)
        /\ output[i + 2] = Line(t, "stack", NoName)

\* every report in the output is whole so far: a banner starts the output or
\* follows a finished report, a name line follows its thread's banner, a stack
\* trace follows its thread's name line
WellFormedOutput ==
    \A i \in 1..Len(output) :
        IF output[i].part = "banner"
        THEN i = 1 \/ output[i - 1].part = "stack"
        ELSE /\ i > 1
             /\ output[i - 1].thread = output[i].thread
             /\ output[i - 1].part =
                    (IF output[i].part = "name" THEN "banner" ELSE "name")

\* C1: after initialization an ExpectNotRealtime call enters the violation
\* path (bypass entered, PrintDiagnostics called) exactly when the Context has
\* realtime_depth > 0 and bypass_depth <= 0 at the call; otherwise it returns
\* with both counters, the output, the report lock and the process untouched.
C1_DetectionIff ==
    [][\A t \in Threads :
         (Called(t) /\ initialized) =>
             LET c == CallerCtx(t) IN
             IF realtime_depth[c] > 0 /\ bypass_depth[c] <= 0
             THEN /\ ev'.outcome = "violation"
                  /\ stack'[t] = Append(stack[t], Frame("lock", c, stack'[t][Len(stack'[t])].name))
                  /\ bypass_depth'[c] = bypass_depth[c] + 1
                  /\ terminated' = "no"
             ELSE /\ ev'.outcome = "noop"
                  /\ UNCHANGED <<realtime_depth, bypass_depth, output, lock,
                                 terminated, stack>>]_vars

C1_Witness ==
    \E t \in Threads :
        /\ ev = [thread |-> t, call |-> "top", outcome |-> "violation"]
        /\ Detected(t)
        /\ initialized

\* C2: when the action policy has ended the process, every thread that
\* detected a violation has its complete report in the output.
C2_EveryViolationReported ==
    terminated = "die" => \A t \in Threads : Detected(t) => ReportComplete(t)

\* C3: at most one thread is inside the body of PrintDiagnostics, it is the
\* holder of the report lock, and the reports in the output are not
\* interleaved.
C3_ReportsSerialized ==
    /\ Cardinality({t \in Threads : InBody(t)}) <= 1
    /\ \A t \in Threads : InBody(t) => lock = t
    /\ WellFormedOutput

C3_Witness ==
    /\ Len(output) = 6
    /\ output[1].thread # output[4].thread

\* C4 as stated: while PrintDiagnostics is in progress on a thread the
\* bypass_depth of its Context is > 0, and an ExpectNotRealtime call made from
\* inside the reporting path returns without a report, without touching the
\* report lock and without ending the process.
C4_NestedCallIsNoOp ==
    /\ [](\A t \in Threads : InReporter(t) => bypass_depth[stack[t][1].ctx] > 0)
    /\ [][\A t \in Threads :
            (Called(t) /\ ev'.call = "nested") =>
                /\ ev'.outcome = "noop"
                /\ UNCHANGED <<realtime_depth, bypass_depth, output, lock,
                               terminated, stack>>]_vars

\* C4 amended: a violation detected with bypass_depth = 0 enters
\* PrintDiagnostics with bypass_depth > 0; and while PrintDiagnostics is in
\* progress with bypass_depth > 0, bypass_depth stays > 0 and an
\* ExpectNotRealtime call made from inside the reporting path returns without
\* a report, without touching the report lock and without ending the process.
C4_NestedCallIsNoOpWhenBalanced ==
    /\ [][\A t \in Threads :
            (Called(t) /\ ev'.outcome = "violation"
                       /\ bypass_depth[CallerCtx(t)] = 0) =>
                /\ InReporter(t)'
                /\ bypass_depth'[CallerCtx(t)] > 0]_vars
    /\ [][\A t \in Threads :
            (InReporter(t) /\ bypass_depth[stack[t][1].ctx] > 0) =>
                /\ InReporter(t)' => bypass_depth'[stack[t][1].ctx] > 0
                /\ Called(t) =>
                     /\ ev'.call = "nested"
                     /\ ev'.outcome = "noop"
                     /\ UNCHANGED <<realtime_depth, bypass_depth, output,
                                    lock, terminated, stack>>]_vars

C4_Witness ==
    \E t \in Threads :
        /\ ev = [thread |-> t, call |-> "nested", outcome |-> "noop"]
        /\ InBody(t)
        /\ lock = t

\* C5: an ExpectNotRealtime call made before initialization has completed
\* ends the process by a check failure whatever the Context's counters are,
\* and nothing is reported and no counter changes.
C5_UninitializedIsFatal ==
    [][\A t \in Threads :
         (Called(t) /\ ~initialized) =>
             /\ ev'.outcome = "checkfail"
             /\ terminated' = "check"
             /\ UNCHANGED <<realtime_depth, bypass_depth, output, lock,
                            stack>>]_vars

C5_Witness ==
    \E t \in Threads :
        /\ ev = [thread |-> t, call |-> "top", outcome |-> "checkfail"]
        /\ terminated = "check"
        /\ ~InRealtimeContext(ref[t])
        /\ output = <<>>

\* C6: the setup body runs at most once in the process, at most one thread is
\* in it, and a thread that is past pthread_once (it reads the slot, or holds
\* a value or a reference) implies the one run has completed.
C6_SetupExactlyOnce ==
    /\ key_create_calls <= 1
    /\ Cardinality({t \in Threads :
                      stack[t] # <<>> /\ Top(t).loc = "key_create"}) <= 1
    /\ \A t \in Threads :
         \/ stack[t] # <<>> /\ Top(t).loc = "lookup"
         \/ tls[t] # NoCtx
         \/ ref[t] # NoCtx
         => key_create_calls = 1 /\ key_created /\ key_once = "done"

C6_Witness ==
    /\ key_create_calls = 1
    /\ \A t \in Threads : tls[t] # NoCtx

\* t's lookup returns in this step
LookupReturns(t) ==
    /\ stack[t] # <<>>
    /\ Top(t).loc = "lookup"
    /\ stack'[t] = <<>>

\* C7: a lookup by a thread that already holds the reference of an earlier
\* lookup returns that same instance, allocates nothing and leaves the
\* instance's counters as they were.
C7_SameInstance ==
    [][\A t \in Threads :
         (LookupReturns(t) /\ ref[t] # NoCtx) =>
             /\ ref'[t] = ref[t]
             /\ allocated' = allocated
             /\ realtime_depth'[ref[t]] = realtime_depth[ref[t]]
             /\ bypass_depth'[ref[t]] = bypass_depth[ref[t]]]_vars

\* one of the four Context operations is performed by t in this step
ContextOp(t) ==
    RealtimePush(t) \/ RealtimePop(t) \/ BypassPush(t) \/ BypassPop(t)

\* C8: the reference a thread holds is to a live Context its own lookup
\* created, so distinct threads hold distinct instances; a Context operation
\* of thread A leaves InRealtimeContext() and IsBypassed() of the Context of
\* every other thread B as they were; and after initialization an
\* ExpectNotRealtime call by a thread that made no RealtimePush is a no-op.
C8_Isolation ==
    /\ [](\A t \in Threads :
            ref[t] # NoCtx => ref[t] \in allocated /\ owner[ref[t]] = t)
    /\ [](\A A, B \in Threads :
            (A # B /\ ref[A] # NoCtx /\ ref[B] # NoCtx) => ref[A] # ref[B])
    /\ [][\A A, B \in Threads :
            (A # B /\ ref[B] # NoCtx /\ ContextOp(A)) =>
                /\ (realtime_depth'[ref[B]] > 0) = InRealtimeContext(ref[B])
                /\ (bypass_depth'[ref[B]] > 0) = IsBypassed(ref[B])]_vars
    /\ [][\A B \in Threads :
            (Called(B) /\ initialized /\ ~pushed[B]) =>
                /\ ev'.outcome = "noop"
                /\ UNCHANGED <<realtime_depth, bypass_depth, output, lock,
                               terminated, stack>>]_vars

C8_Witness ==
    \E A, B \in Threads :
        /\ A # B
        /\ ref[A] # NoCtx
        /\ InRealtimeContext(ref[A])
        /\ ~pushed[B]
        /\ initialized
        /\ ev = [thread |-> B, call |-> "top", outcome |-> "noop"]

\* C9: a Context is created with both counters zero; it is freed only by the
\* exit of the thread that created it; the reference a thread holds is never
\* to a freed Context; and no Context of a thread that has exited is still
\* allocated.
C9_ContextLifetime ==
    /\ [][\A a \in allocated' \ allocated :
            realtime_depth'[a] = 0 /\ bypass_depth'[a] = 0]_vars
    /\ [][\A a \in allocated \ allocated' :
            alive[owner[a]] /\ ~alive'[owner[a]]]_vars
    /\ [](\A t \in Threads : ref[t] # NoCtx => ref[t] \in allocated)
    /\ [](\A a \in allocated : alive[owner[a]])

\* C10: a thread on the violation path stays on it (its ExpectNotRealtime
\* call never returns) and the bypass_depth of its Context is never
\* decremented (the BypassPop of line 87 never runs).
C10_ViolationNeverReturns ==
    [][\A t \in Threads :
         Detected(t) =>
             /\ Detected(t)'
             /\ stack'[t][1].ctx = stack[t][1].ctx
             /\ bypass_depth'[stack[t][1].ctx] >= bypass_depth[stack[t][1].ctx]]_vars

C10_Witness ==
    \E t \in Threads :
        /\ Detected(t)
        /\ stack[t][1].loc = "action"
        /\ terminated = "die"
        /\ ReportComplete(t)

\* how many reports naming n thread t has completed in the output
ReportsNaming(t, n) ==
    Cardinality({i \in 1..Len(output) :
                    /\ i + 2 <= Len(output)
                    /\ output[i] = Line(t, "banner", NoName)
                    /\ output[i + 1] = Line(t, "name", n)
                    /\ output[i + 2] = Line(t, "stack", NoName)})

\* C11: a thread writes at most one banner; the action policy ends the
\* process only from a thread whose own report is complete (BypassPush, then
\* report, then terminate); and once the process has been ended by the action
\* policy, every thread that called RealtimePush and then detected a violation
\* in ExpectNotRealtime(ctx, f) has exactly one complete report naming f.
C11_OneReportThenTerminate ==
    /\ \A t \in Threads :
         Cardinality({i \in 1..Len(output) :
                         output[i] = Line(t, "banner", NoName)}) <= 1
    /\ terminated = "die" =>
         \E t \in Threads :
             /\ Detected(t)
             /\ stack[t][1].loc = "action"
             /\ ReportsNaming(t, stack[t][1].name) = 1
    /\ terminated = "die" =>
         \A t \in Threads :
             (Detected(t) /\ pushed[t]) =>
                 ReportsNaming(t, stack[t][1].name) = 1

\* how many times op was called on the Context the subject holds
Count(op) == Cardinality({i \in 1..Len(hist) : hist[i] = op})

\* C12: on the Context a thread holds, realtime_depth is the number of
\* RealtimePush calls made on it since its creation less the number of
\* RealtimePop calls, and InRealtimeContext() is true exactly when the pushes
\* exceed the pops.
C12_RealtimeDepthCounts ==
    ref[Subject] # NoCtx =>
        /\ realtime_depth[ref[Subject]] =
               Count("RealtimePush") - Count("RealtimePop")
        /\ InRealtimeContext(ref[Subject]) <=>
               Count("RealtimePush") > Count("RealtimePop")

C12_Witness ==
    /\ hist = <<"RealtimePush", "RealtimePush", "RealtimePop">>
    /\ InRealtimeContext(ref[Subject])
    /\ realtime_depth[ref[Subject]] = 1

\* C13: on the Context a thread holds, outside the violation path of
\* ExpectNotRealtime, bypass_depth is the number of BypassPush calls made on
\* it since its creation less the number of BypassPop calls, and IsBypassed()
\* is true exactly when the pushes exceed the pops.
C13_BypassDepthCounts ==
    (ref[Subject] # NoCtx /\ ~Detected(Subject)) =>
        /\ bypass_depth[ref[Subject]] =
               Count("BypassPush") - Count("BypassPop")
        /\ IsBypassed(ref[Subject]) <=>
               Count("BypassPush") > Count("BypassPop")

C13_Witness ==
    /\ hist = <<"BypassPush", "BypassPush", "BypassPop", "BypassPop">>
    /\ ~IsBypassed(ref[Subject])

\* C14: a failure of the registry's facilities is fatal: after a failed key
\* creation the process is terminated by the check, after a failed allocation
\* it is terminated, and a reference GetContextForThisThread has returned to a
\* running thread is to a live Context that is associated with that thread.
C14_RegistryFailuresAreFatal ==
    /\ (key_create_calls > 0 /\ ~key_created) => terminated = "check"
    /\ \A t \in Threads :
         (alive[t] /\ ref[t] # NoCtx) =>
             /\ ref[t] \in allocated
             /\ tls[t] = ref[t]

\* C15: a non-violating ExpectNotRealtime call never touches the report
\* lock: a thread in user code whose Context is not in a real-time region, or
\* is bypassed, can make the call whoever holds the lock, and the call is one
\* step of the thread that leaves the lock as it was and returns to the caller
\* (the thread stands where it stood, the process runs on).
C15_FastPathIgnoresLock ==
    /\ [](\A t \in Threads, n \in Names :
            (/\ initialized
             /\ Idle(t)
             /\ ref[t] # NoCtx
             /\ ~(InRealtimeContext(ref[t]) /\ ~IsBypassed(ref[t])))
            => ENABLED ExpectNotRealtime(t, n))
    /\ [][\A t \in Threads :
            (Called(t) /\ ev'.outcome = "noop") =>
                /\ lock' = lock
                /\ stack' = stack
                /\ terminated' = terminated]_vars

C15_Witness ==
    \E t \in Threads, u \in Threads :
        /\ u # t
        /\ lock = u
        /\ InBody(u)
        /\ ev = [thread |-> t, call |-> "top", outcome |-> "noop"]
        /\ stack[t] = <<>>

\* the counters of every Context but c are as they were
OthersUnchanged(c) ==
    \A a \in Addrs \ {c} :
        /\ realtime_depth'[a] = realtime_depth[a]
        /\ bypass_depth'[a] = bypass_depth[a]

\* C16: each of the four Context operations changes its own counter by exactly
\* one and nothing else (the other counter, every other Context, the registry,
\* the lock, the output and the process are as they were); and no step of
\* ExpectNotRealtime, on the no-op path, the check failure or the violation path
\* through the report to the action, changes realtime_depth.
C16_OperationsTouchOwnCounter ==
    [][LET c == ref[Subject] IN
         /\ hist' = Append(hist, "RealtimePush") =>
              /\ realtime_depth'[c] = realtime_depth[c] + 1
              /\ bypass_depth'[c] = bypass_depth[c]
         /\ hist' = Append(hist, "RealtimePop") =>
              /\ realtime_depth'[c] = realtime_depth[c] - 1
              /\ bypass_depth'[c] = bypass_depth[c]
         /\ hist' = Append(hist, "BypassPush") =>
              /\ bypass_depth'[c] = bypass_depth[c] + 1
              /\ realtime_depth'[c] = realtime_depth[c]
         /\ hist' = Append(hist, "BypassPop") =>
              /\ bypass_depth'[c] = bypass_depth[c] - 1
              /\ realtime_depth'[c] = realtime_depth[c]
         /\ Len(hist') > Len(hist) =>
              /\ OthersUnchanged(c)
              /\ UNCHANGED <<initialized, terminated, regVars, allocated,
                             owner, ref, stack, alive, lock, output>>
         /\ (Called(Subject) \/ Detected(Subject)) =>
              realtime_depth' = realtime_depth
      ]_vars

C16_Witness ==
    /\ {hist[i] : i \in 1..Len(hist)} =
           {"RealtimePush", "RealtimePop", "BypassPush", "BypassPop"}
    /\ realtime_depth[ref[Subject]] = 0
    /\ bypass_depth[ref[Subject]] = 0
    /\ ev.thread = Subject

\* C17: the counters are not clamped at zero. A RealtimePop at depth 0 gives
\* depth -1; after an unpaired RealtimePop and one RealtimePush the depth is 0,
\* InRealtimeContext() is false and an ExpectNotRealtime call made then is a
\* silent no-op. A BypassPop at depth 0 gives depth -1; after an unpaired
\* BypassPop and one BypassPush IsBypassed() is false, and with the Context then
\* put in a real-time region an ExpectNotRealtime call detects the violation.
C17_CountersNotClamped ==
    /\ [](LET c == ref[Subject] IN
            /\ hist = <<"RealtimePop">> => realtime_depth[c] = -1
            /\ hist = <<"RealtimePop", "RealtimePush">> =>
                 /\ realtime_depth[c] = 0
                 /\ ~InRealtimeContext(c)
            /\ (hist = <<"BypassPop">> /\ ~Detected(Subject)) =>
                 bypass_depth[c] = -1
            /\ (hist = <<"BypassPop", "BypassPush">> /\ ~Detected(Subject)) =>
                 /\ bypass_depth[c] = 0
                 /\ ~IsBypassed(c))
    /\ [][/\ (/\ hist = <<"RealtimePop", "RealtimePush">>
              /\ initialized
              /\ Called(Subject))
             => /\ ev'.outcome = "noop"
                /\ UNCHANGED <<output, lock, stack, terminated, bypass_depth>>
          /\ (/\ hist = <<"BypassPop", "BypassPush", "RealtimePush">>
              /\ initialized
              /\ Idle(Subject)
              /\ Called(Subject))
             => ev'.outcome = "violation"
       ]_vars

C17_Witness ==
    /\ hist = <<"RealtimePop", "RealtimePush">>
    /\ initialized
    /\ ev = [thread |-> Subject, call |-> "top", outcome |-> "noop"]

====
